---- MODULE Spec2Model ----
(***************************************************************************)
(* Upload-and-poll controller of frontend/static/frontend/js/scripts.js.   *)
(*                                                                         *)
(* The browser runs every handler to its next await without interleaving,  *)
(* so each action below is one such run-to-completion step:                *)
(*   FileInputChange  the 'change' listener with renderImagePreviews       *)
(*   ReaderLoad       one FileReader's onload callback                     *)
(*   ReaderError      a read that fails (no onerror handler is installed)  *)
(*   ClickEmpty / Click   the 'click' listener up to its await fetch       *)
(*   UploadOk / UploadFail   the rest of the 'click' listener              *)
(*   Tick             the setInterval callback up to its await fetch       *)
(*   PollOk / PollFail       the rest of the setInterval callback          *)
(* Between "await fetch" and "await response.json()" a handler touches no  *)
(* variable, so the two continuations are one step here.                   *)
(*                                                                         *)
(* Spec is the controller: selection changes, clicks, upload and status    *)
(* responses, timer ticks.  SpecPreview is the selection with the          *)
(* FileReader callbacks.  The callbacks write imagePreview and readers     *)
(* only, which no other handler reads, so Spec leaves the reads pending.   *)
(* SpecRender applies renderResults to every record of RenderRecords.      *)
(***************************************************************************)
EXTENDS Integers, Sequences, FiniteSets, TLC

\* ---------------------------------------------------------------- bounds
MaxChanges == 2      \* selection changes in one run
MaxAttempts == 3     \* upload requests in one run
MaxTicks == 2        \* timer ticks in one run, over all polling sessions
MaxPhotos == 3       \* photos of a rendered Upload Record (SpecRender)

\* ------------------------------------------------------------- DOM nodes
\* An element: tag, class list, text pieces in order, child elements.
El(tag, cls, text, kids) ==
    [tag |-> tag, cls |-> cls, text |-> text, kids |-> kids]

\* result.id of a response body that carries no id: the JS value undefined,
\* written as the text a template string makes of it
NoId == "undefined"

ProcessingMsg == <<El("p", <<>>, <<"Processing your images...">>, <<>>)>>
UploadFailedMsg ==
    <<El("p", <<"status", "error">>, <<"Upload failed. Please try again.">>, <<>>)>>
PollingMsg(uploadId) ==
    <<El("p", <<>>, <<"Polling for results for upload ID: ", uploadId>>, <<>>)>>
PollFailedMsg ==
    <<El("p", <<"status", "error">>,
         <<"Error fetching results. Please check the console.">>, <<>>)>>

\* element.innerHTML = html: the children are replaced.
AppendInnerHTML(old, new) == old \o new
SetInnerHTML(old, new) == new

\* ----------------------------------------------------- Upload Records
Statuses == {"processing", "done", "error"}
IsTerminal(status) == status = "done" \/ status = "error"

Ans1 == [provider |-> "openai", model |-> "gpt-x", content |-> "4", status |-> "complete"]
Ans2 == [provider |-> "gemini", model |-> "g-1", content |-> "", status |-> "pending"]
\* question is a sequence of zero or one Question (absent or present);
\* the empty string stands for an absent (falsy) text.
PhotoNoQuestion == [filename |-> "a.png", question |-> <<>>]
PhotoOneAnswer ==
    [filename |-> "b.png",
     question |-> <<[extracted_text |-> "2+2=?", answers |-> <<Ans1>>]>>]
PhotoTwoAnswers ==
    [filename |-> "c.png",
     question |-> <<[extracted_text |-> "", answers |-> <<Ans2, Ans1>>]>>]
PhotoNoAnswers ==
    [filename |-> "d.png",
     question |-> <<[extracted_text |-> "x?", answers |-> <<>>]>>]
Photos == {PhotoNoQuestion, PhotoOneAnswer, PhotoTwoAnswers, PhotoNoAnswers}

RECURSIVE SeqsUpTo(_, _)
SeqsUpTo(S, n) ==
    IF n = 0 THEN {<<>>}
    ELSE LET shorter == SeqsUpTo(S, n - 1)
         IN  shorter \cup {Append(s, x) : s \in {t \in shorter : Len(t) = n - 1}, x \in S}

Record(status, photos) == [status |-> status, photos |-> photos]
\* records the render specification draws from
RenderRecords == {Record(s, ps) : s \in Statuses, ps \in SeqsUpTo(Photos, MaxPhotos)}
\* records a status response carries in the controller specification
PollRecords ==
    {Record(s, ps) : s \in Statuses, ps \in {<<PhotoNoQuestion, PhotoOneAnswer>>}}

\* ------------------------------------------------------- renderResults
AnswerText(answer) ==
    IF answer.content # "" THEN answer.content ELSE "No answer yet..."

AnswerCard(answer) ==
    El("div", <<"answer-card">>, <<>>,
       << El("h4", <<>>, <<answer.provider, " (", answer.model, ")">>, <<>>),
          El("p", <<>>, <<AnswerText(answer)>>, <<>>),
          El("small", <<>>, <<"Status: ">>,
             <<El("span", <<"status", answer.status>>, <<answer.status>>, <<>>)>>) >>)

QuestionText(photo) ==
    IF Len(photo.question) = 1 /\ photo.question[1].extracted_text # ""
    THEN photo.question[1].extracted_text
    ELSE "Extracting text..."

\* answerGrid.prepend in place of answerGrid.appendChild
RECURSIVE PrependAnswers(_, _, _)
PrependAnswers(grid, answers, i) ==
    IF i > Len(answers) THEN grid
    ELSE PrependAnswers(<<AnswerCard(answers[i])>> \o grid, answers, i + 1)

\* photo.question.answers.forEach(... answerGrid.appendChild(answerCard))
RECURSIVE AppendAnswers(_, _, _)
AppendAnswers(grid, answers, i) ==
    IF i > Len(answers) THEN grid
    ELSE AppendAnswers(Append(grid, AnswerCard(answers[i])), answers, i + 1)

AnswerGrid(photo) ==
    IF Len(photo.question) = 1
    THEN AppendAnswers(<<>>, photo.question[1].answers, 1)
    ELSE <<>>

ResultCard(photo) ==
    El("div", <<"result-card">>, <<>>,
       << El("h3", <<>>, <<"Question from ", photo.filename>>, <<>>),
          El("p", <<>>, <<"Extracted Text:", QuestionText(photo)>>, <<>>),
          El("div", <<"answer-grid">>, <<>>, AnswerGrid(photo)) >>)

\* data.photos.forEach(... resultsSection.appendChild(resultCard))
RECURSIVE AppendCards(_, _, _)
AppendCards(region, photos, i) ==
    IF i > Len(photos) THEN region
    ELSE AppendCards(Append(region, ResultCard(photos[i])), photos, i + 1)

ResultsHeader(status) ==
    <<El("h2", <<>>, <<"Results (Status: ", ")">>,
         <<El("span", <<"status", status>>, <<status>>, <<>>)>>)>>

renderResults(region, data) ==
    AppendCards(SetInnerHTML(region, ResultsHeader(data.status)), data.photos, 1)

\* ------------------------------------------------------------ FormData
\* the files the picker offers
Files == {"f1", "f2"}
\* the file lists a picker can hand over: no file twice
Selections ==
    {s \in SeqsUpTo(Files, Cardinality(Files)) : \A i, j \in DOMAIN s : s[i] = s[j] => i = j}

\* selectedFiles.forEach(file => formData.append('uploaded_photos', file))
RECURSIVE AppendParts(_, _, _)
AppendParts(formData, files, i) ==
    IF i > Len(files) THEN formData
    ELSE AppendParts(Append(formData, <<"uploaded_photos", files[i]>>), files, i + 1)

\* formData.set in place of formData.append: each part replaces the one before
RECURSIVE SetParts(_, _, _)
SetParts(formData, files, i) ==
    IF i > Len(files) THEN formData
    ELSE SetParts(<<<<"uploaded_photos", files[i]>>>>, files, i + 1)

BuildFormDataWithSet(files) == SetParts(<<>>, files, 1)
BuildFormData(files) == AppendParts(<<>>, files, 1)

\* --------------------------------------------------------------- state
VARIABLES
    selectedFiles,    \* let selectedFiles
    imagePreview,     \* children of #image-preview: the file each thumbnail shows
    readers,          \* pending FileReader reads: how many of each file
    changes,          \* selection changes handled so far
    uploadButton,     \* [disabled, textContent] of #upload-button
    resultsSection,   \* children of #results-section
    uploads,          \* one entry per run of the click listener past its guard
    posts,            \* upload requests whose fetch has not settled
    polls,            \* status requests whose fetch has not settled
    ticked,           \* timer ticks so far
    last              \* the event handled by the latest step

vars == <<selectedFiles, imagePreview, readers, changes, uploadButton,
          resultsSection, uploads, posts, polls, ticked, last>>

Event(op, att, data) == [op |-> op, att |-> att, data |-> data]

Attempts == DOMAIN uploads

\* the identifier the Upload Endpoint assigns to the a-th upload
ServerId(a) == <<"u1", "u2", "u3", "u4", "u5", "u6">>[a]

Init ==
    /\ selectedFiles = <<>>
    /\ imagePreview = <<>>
    /\ readers = [f \in Files |-> 0]
    /\ changes = 0
    /\ uploadButton = [disabled |-> FALSE, textContent |-> "Upload and Process"]
    /\ resultsSection = <<>>
    /\ uploads = <<>>
    /\ posts = {}
    /\ polls = {}
    /\ ticked = 0
    /\ last = Event("load", 0, <<>>)

\* ------------------------------------------------- selection and preview
\* selectedFiles.forEach(file => ... reader.readAsDataURL(file))
RECURSIVE StartReads(_, _, _)
StartReads(pending, files, i) ==
    IF i > Len(files) THEN pending
    ELSE StartReads([pending EXCEPT ![files[i]] = @ + 1], files, i + 1)

\* selectedFiles.push(...event.target.files) in place of the assignment
FileInputChangeAdditive(files) ==
    /\ changes < MaxChanges
    /\ changes' = changes + 1
    /\ selectedFiles' = selectedFiles \o files
    /\ imagePreview' = <<>>
    /\ readers' = StartReads(readers, selectedFiles \o files, 1)
    /\ last' = Event("change", 0, <<files>>)
    /\ UNCHANGED <<uploadButton, resultsSection, uploads, posts, polls, ticked>>

FileInputChange(files) ==
    /\ changes < MaxChanges
    /\ changes' = changes + 1
    /\ selectedFiles' = files
    /\ imagePreview' = <<>>
    /\ readers' = StartReads(readers, files, 1)
    /\ last' = Event("change", 0, <<files>>)
    /\ UNCHANGED <<uploadButton, resultsSection, uploads, posts, polls, ticked>>

ReaderLoad(f) ==
    /\ readers[f] > 0
    /\ readers' = [readers EXCEPT ![f] = @ - 1]
    /\ imagePreview' = Append(imagePreview, f)
    /\ last' = Event("onload", 0, <<>>)
    /\ UNCHANGED <<selectedFiles, changes, uploadButton, resultsSection, uploads,
                   posts, polls, ticked>>

ReaderError(f) ==
    /\ readers[f] > 0
    /\ readers' = [readers EXCEPT ![f] = @ - 1]
    /\ last' = Event("readerror", 0, <<>>)
    /\ UNCHANGED <<selectedFiles, imagePreview, changes, uploadButton,
                   resultsSection, uploads, posts, polls, ticked>>

\* ---------------------------------------------------------- click listener
\* what the listener and pollForResults keep per run: the state of the
\* fetch, the uploadId and the interval of pollForResults, and the branch
\* that cancelled the interval
NewUpload == [fetch |-> "pending", uploadId |-> NoId, interval |-> "none", stop |-> "none"]

ButtonReady == [disabled |-> FALSE, textContent |-> "Upload and Process"]
ButtonBusy == [disabled |-> TRUE, textContent |-> "Uploading..."]

\* A disabled button dispatches no click event.
ClickEmptyFallsThrough ==
    /\ ~uploadButton.disabled
    /\ Len(selectedFiles) = 0
    /\ Len(uploads) < MaxAttempts
    /\ uploadButton' = ButtonBusy
    /\ resultsSection' = SetInnerHTML(resultsSection, ProcessingMsg)
    /\ uploads' = Append(uploads, NewUpload)
    /\ posts' = posts \cup {[att |-> Len(uploads) + 1, body |-> <<>>]}
    /\ last' = Event("alert", 0, <<>>)
    /\ UNCHANGED <<selectedFiles, imagePreview, readers, changes, polls, ticked>>

ClickEmpty ==
    /\ ~uploadButton.disabled
    /\ Len(selectedFiles) = 0
    /\ last' = Event("alert", 0, <<>>)
    /\ UNCHANGED <<selectedFiles, imagePreview, readers, changes, uploadButton,
                   resultsSection, uploads, posts, polls, ticked>>

Click ==
    /\ ~uploadButton.disabled
    /\ Len(selectedFiles) # 0
    /\ Len(uploads) < MaxAttempts
    /\ uploadButton' = ButtonBusy
    /\ resultsSection' = SetInnerHTML(resultsSection, ProcessingMsg)
    /\ uploads' = Append(uploads, NewUpload)
    /\ posts' = posts \cup {[att |-> Len(uploads) + 1, body |-> BuildFormData(selectedFiles)]}
    /\ last' = Event("click", Len(uploads) + 1, <<>>)
    /\ UNCHANGED <<selectedFiles, imagePreview, readers, changes, polls, ticked>>

\* response.ok, the body parses: pollForResults(result.id) runs to its end
\* (it has no await): the region is replaced and the interval is started.
UploadOk(p, id) ==
    /\ p \in posts
    /\ posts' = posts \ {p}
    /\ uploads' = [uploads EXCEPT ![p.att].fetch = "ok", ![p.att].uploadId = id,
                                  ![p.att].interval = "active"]
    /\ resultsSection' = SetInnerHTML(resultsSection, PollingMsg(id))
    /\ last' = Event("uploadOk", p.att, <<>>)
    /\ UNCHANGED <<selectedFiles, imagePreview, readers, changes, uploadButton,
                   polls, ticked>>

\* fetch rejects, !response.ok, response.json() rejects, or result is null
UploadFailStaysDisabled(p) ==
    /\ p \in posts
    /\ posts' = posts \ {p}
    /\ uploads' = [uploads EXCEPT ![p.att].fetch = "failed"]
    /\ resultsSection' = SetInnerHTML(resultsSection, UploadFailedMsg)
    /\ last' = Event("uploadFail", p.att, <<>>)
    /\ UNCHANGED <<selectedFiles, imagePreview, readers, changes, uploadButton,
                   polls, ticked>>

UploadFail(p) ==
    /\ p \in posts
    /\ posts' = posts \ {p}
    /\ uploads' = [uploads EXCEPT ![p.att].fetch = "failed"]
    /\ resultsSection' = SetInnerHTML(resultsSection, UploadFailedMsg)
    /\ uploadButton' = ButtonReady
    /\ last' = Event("uploadFail", p.att, <<>>)
    /\ UNCHANGED <<selectedFiles, imagePreview, readers, changes, polls, ticked>>

\* ------------------------------------------------------- interval callback
\* one uploadId shared by all sessions and set by the first, in place of the
\* parameter of pollForResults
TickSharedId(a) ==
    /\ a \in Attempts
    /\ uploads[a].interval = "active"
    /\ ticked < MaxTicks
    /\ ticked' = ticked + 1
    /\ polls' = polls \cup {[att |-> a, n |-> ticked + 1, id |-> uploads[1].uploadId]}
    /\ last' = Event("tick", a, <<>>)
    /\ UNCHANGED <<selectedFiles, imagePreview, readers, changes, uploadButton,
                   resultsSection, uploads, posts>>

\* the callback returns at once while a request of its session is outstanding
TickGuarded(a) ==
    /\ a \in Attempts
    /\ uploads[a].interval = "active"
    /\ \A q \in polls : q.att # a
    /\ ticked < MaxTicks
    /\ ticked' = ticked + 1
    /\ polls' = polls \cup {[att |-> a, n |-> ticked + 1, id |-> uploads[a].uploadId]}
    /\ last' = Event("tick", a, <<>>)
    /\ UNCHANGED <<selectedFiles, imagePreview, readers, changes, uploadButton,
                   resultsSection, uploads, posts>>

\* the callback of session a up to its await: fetch(`/api/uploads/${uploadId}/`)
Tick(a) ==
    /\ a \in Attempts
    /\ uploads[a].interval = "active"
    /\ ticked < MaxTicks
    /\ ticked' = ticked + 1
    /\ polls' = polls \cup {[att |-> a, n |-> ticked + 1, id |-> uploads[a].uploadId]}
    /\ last' = Event("tick", a, <<>>)
    /\ UNCHANGED <<selectedFiles, imagePreview, readers, changes, uploadButton,
                   resultsSection, uploads, posts>>

\* clearInterval(interval) of session a, reached on the branch `why`
KeepInterval(ups, a, why) == ups

ClearInterval(ups, a, why) ==
    [ups EXCEPT ![a].interval = "cleared",
                ![a].stop = IF ups[a].interval = "active" THEN why ELSE @]

\* response.ok and the body parses to the record data; the Status Endpoint
\* holds no record for the identifier "undefined", so such a request fails
PollOkNoClear(q, data) ==
    /\ q \in polls
    /\ q.id # NoId
    /\ polls' = polls \ {q}
    /\ resultsSection' = renderResults(resultsSection, data)
    /\ IF IsTerminal(data.status)
       THEN /\ uploads' = KeepInterval(uploads, q.att, data.status)
            /\ uploadButton' = ButtonReady
       ELSE UNCHANGED <<uploads, uploadButton>>
    /\ last' = Event("pollOk", q.att, <<data>>)
    /\ UNCHANGED <<selectedFiles, imagePreview, readers, changes, posts, ticked>>

PollOk(q, data) ==
    /\ q \in polls
    /\ q.id # NoId
    /\ polls' = polls \ {q}
    /\ resultsSection' = renderResults(resultsSection, data)
    /\ IF IsTerminal(data.status)
       THEN /\ uploads' = ClearInterval(uploads, q.att, data.status)
            /\ uploadButton' = ButtonReady
       ELSE UNCHANGED <<uploads, uploadButton>>
    /\ last' = Event("pollOk", q.att, <<data>>)
    /\ UNCHANGED <<selectedFiles, imagePreview, readers, changes, posts, ticked>>

\* fetch rejects, !response.ok, response.json() rejects, or renderResults throws
PollFailNoClear(q) ==
    /\ q \in polls
    /\ polls' = polls \ {q}
    /\ uploads' = KeepInterval(uploads, q.att, "fail")
    /\ resultsSection' = SetInnerHTML(resultsSection, PollFailedMsg)
    /\ uploadButton' = ButtonReady
    /\ last' = Event("pollFail", q.att, <<>>)
    /\ UNCHANGED <<selectedFiles, imagePreview, readers, changes, posts, ticked>>

PollFail(q) ==
    /\ q \in polls
    /\ polls' = polls \ {q}
    /\ uploads' = ClearInterval(uploads, q.att, "fail")
    /\ resultsSection' = SetInnerHTML(resultsSection, PollFailedMsg)
    /\ uploadButton' = ButtonReady
    /\ last' = Event("pollFail", q.att, <<>>)
    /\ UNCHANGED <<selectedFiles, imagePreview, readers, changes, posts, ticked>>

\* ------------------------------------------------------- specification
Next ==
    \/ \E files \in Selections : FileInputChange(files)
    \/ ClickEmpty
    \/ Click
    \/ \E p \in posts : \E id \in {ServerId(p.att), NoId} : UploadOk(p, id)
    \/ \E p \in posts : UploadFail(p)
    \/ \E a \in Attempts : Tick(a)
    \/ \E q \in polls, data \in PollRecords : PollOk(q, data)
    \/ \E q \in polls : PollFail(q)

Spec == Init /\ [][Next]_vars

\* selection and preview: the change listener and the FileReader callbacks
NextPreview ==
    \/ \E files \in Selections : FileInputChange(files)
    \/ \E f \in Files : ReaderLoad(f)
    \/ \E f \in Files : ReaderError(f)

SpecPreview == Init /\ [][NextPreview]_vars

\* the same with every read completing successfully
NextPreviewLoads ==
    \/ \E files \in Selections : FileInputChange(files)
    \/ \E f \in Files : ReaderLoad(f)

SpecPreviewLoads == Init /\ [][NextPreviewLoads]_vars

\* The controller with a timer that keeps firing: the interval callback
\* without the run-wide tick budget of Tick.  A session ticks as long as its
\* interval is active.  The fair runs are explored with one upload fewer than
\* the runs of Spec and with at most MaxTicks status requests outstanding at
\* once, each in a free slot.
LiveAttempts == MaxAttempts - 1

Outstanding(a) == {q \in polls : q.att = a}

FreeSlot(a) == CHOOSE n \in 1 .. MaxTicks : \A q \in polls : q.n # n

TickLive(a) ==
    /\ a \in Attempts
    /\ uploads[a].interval = "active"
    /\ Cardinality(polls) < MaxTicks
    /\ polls' = polls \cup {[att |-> a, n |-> FreeSlot(a), id |-> uploads[a].uploadId]}
    /\ last' = Event("tick", a, <<>>)
    /\ UNCHANGED <<selectedFiles, imagePreview, readers, changes, uploadButton,
                   resultsSection, uploads, posts, ticked>>

\* a status request of session a is answered with a terminal record or fails
RespondFinal(a) ==
    \E q \in Outstanding(a) :
        \/ PollFail(q)
        \/ \E data \in PollRecords : IsTerminal(data.status) /\ PollOk(q, data)

\* the page after a first file has been picked and its read has completed
InitLive ==
    /\ selectedFiles = <<"f1">>
    /\ imagePreview = <<"f1">>
    /\ readers = [f \in Files |-> 0]
    /\ changes = 1
    /\ uploadButton = [disabled |-> FALSE, textContent |-> "Upload and Process"]
    /\ resultsSection = <<>>
    /\ uploads = <<>>
    /\ posts = {}
    /\ polls = {}
    /\ ticked = 0
    /\ last = Event("change", 0, <<<<"f1">>>>)

NextLive ==
    \/ Len(uploads) < LiveAttempts /\ Click
    \/ \E p \in posts : \E id \in {ServerId(p.att), NoId} : UploadOk(p, id)
    \/ \E p \in posts : UploadFail(p)
    \/ \E a \in Attempts : TickLive(a)
    \/ \E q \in polls, data \in PollRecords : PollOk(q, data)
    \/ \E q \in polls : PollFail(q)

\* The timer of an active session keeps firing (WF on its callback); a
\* session that keeps having requests outstanding gets, in the end, a failure
\* or a terminal record (SF): every request is answered and the status at the
\* server becomes and stays terminal.
FairPolling ==
    \A a \in 1 .. LiveAttempts :
        /\ WF_vars(TickLive(a))
        /\ SF_vars(RespondFinal(a))

SpecLive == InitLive /\ [][NextLive]_vars /\ FairPolling

\* renderResults alone, over what the region can hold before a render
PriorRegions ==
    {<<>>, ProcessingMsg, UploadFailedMsg, PollFailedMsg, PollingMsg(ServerId(1))}

InitRender ==
    /\ selectedFiles = <<>>
    /\ imagePreview = <<>>
    /\ readers = [f \in Files |-> 0]
    /\ changes = 0
    /\ uploadButton = [disabled |-> FALSE, textContent |-> "Upload and Process"]
    /\ resultsSection \in PriorRegions
    /\ uploads = <<>>
    /\ posts = {}
    /\ polls = {}
    /\ ticked = 0
    /\ last = Event("load", 0, <<>>)

RenderStep(data) ==
    /\ resultsSection' = renderResults(resultsSection, data)
    /\ last' = Event("render", 0, <<data>>)
    /\ UNCHANGED <<selectedFiles, imagePreview, readers, changes, uploadButton,
                   uploads, posts, polls, ticked>>

NextRender == \E data \in RenderRecords : RenderStep(data)

SpecRender == InitRender /\ [][NextRender]_vars

\* =================================================================== claims
Terminal(e) == e.op = "pollOk" /\ IsTerminal(e.data[1].status)
NonTerminal(e) == e.op = "pollOk" /\ ~IsTerminal(e.data[1].status)

\* an attempt is in flight: its upload request is outstanding or its timer is active
InFlight(a) == uploads[a].fetch = "pending" \/ uploads[a].interval = "active"

\* status requests issued by the step
NewPolls == polls' \ polls

\* Once the interval of a session is cleared it stays cleared, and the step
\* issues no status request for that session nor for its upload identifier.
NoRequestAfterCancel ==
    \A a \in Attempts :
        uploads[a].interval = "cleared" =>
            /\ uploads'[a].interval = "cleared"
            /\ \A q \in NewPolls :
                  /\ q.att # a
                  /\ uploads[a].uploadId # NoId => q.id # uploads[a].uploadId

\* C1: while an upload attempt is in flight (its upload request is outstanding
\* or its poll timer is active) the trigger control is disabled.
C1_DisabledWhileInFlight ==
    (\E a \in Attempts : InFlight(a)) => uploadButton.disabled

\* C2: the step that processes a poll response with status "done" or "error"
\* leaves the region holding the render of that record, the timer of that
\* session cancelled and the trigger control enabled; from then on no status
\* request is issued for that session or its upload identifier.
C2_AfterTerminal ==
    (last.op = "pollOk" /\ Terminal(last)) =>
        /\ resultsSection = renderResults(<<>>, last.data[1])
        /\ uploads[last.att].interval = "cleared"
        /\ uploadButton = ButtonReady

\* C2 as a whole: the state after the step, and every later step
C2_TerminalStopsPolling == []C2_AfterTerminal /\ [][NoRequestAfterCancel]_vars

C2_Witness ==
    /\ last.op = "pollOk" /\ Terminal(last)
    /\ uploads[last.att].stop = last.data[1].status
    /\ ticked < MaxTicks

\* C3: right after a poll response with a non-terminal status has been
\* rendered, the poll timer of that session is active.
C3_TimerActiveAfterNonTerminal ==
    (last.op = "pollOk" /\ NonTerminal(last)) => uploads[last.att].interval = "active"

\* C4: a trigger with an empty selection issues no upload and no status
\* request, starts no timer, leaves the trigger control enabled and leaves
\* the selection and the results region as they were.
C4_EmptyTriggerNoEffect ==
    [][last'.op = "alert" =>
          /\ UNCHANGED <<selectedFiles, resultsSection, uploads, posts, polls, ticked>>
          /\ ~uploadButton'.disabled]_vars

C4_Witness ==
    /\ last.op = "alert"
    /\ Len(uploads) > 0
    /\ resultsSection # <<>>

\* C5: a trigger with a non-empty selection issues exactly one upload request
\* whose payload has one part per selected file in selection order; no other
\* step issues an upload request or alters one already issued.
PartsOf(files) == [i \in DOMAIN files |-> <<"uploaded_photos", files[i]>>]

C5_OneRequestInSelectionOrder ==
    [][/\ last'.op = "click" =>
              \E p \in posts' \ posts :
                  /\ posts' = posts \cup {p}
                  /\ p.body = PartsOf(selectedFiles)
                  /\ Len(p.body) = Len(selectedFiles)
       /\ last'.op # "click" => posts' \subseteq posts]_vars

C5_Witness ==
    /\ last.op = "change"
    /\ \E p \in posts : Len(p.body) = 2 /\ p.body # PartsOf(selectedFiles)

\* C6: when the upload request fails the region shows the upload error
\* message, the trigger control is enabled and no timer is started; no status
\* request is ever issued for an attempt whose upload did not succeed, and
\* the failing step issues no upload request.
C6_AfterUploadFail ==
    /\ last.op = "uploadFail" =>
          /\ resultsSection = UploadFailedMsg
          /\ uploadButton = ButtonReady
    /\ \A a \in Attempts :
          uploads[a].fetch = "failed" =>
              /\ uploads[a].interval = "none"
              /\ \A q \in polls : q.att # a

\* C6 as a whole: the state after the failure, and every step
C6_UploadFailureAborts ==
    /\ []C6_AfterUploadFail
    /\ [][/\ \A q \in NewPolls : uploads[q.att].fetch = "ok"
          /\ last'.op = "uploadFail" =>
                (posts' \subseteq posts /\ Len(uploads') = Len(uploads))]_vars

C6_Witness ==
    /\ last.op = "uploadFail"
    /\ \E a \in Attempts : a # last.att /\ uploads[a].fetch = "ok"

\* C7: the step that handles a failed poll tick leaves the timer of the
\* session cancelled, the region holding the poll error message and the
\* trigger control enabled; from then on no status request is issued for that
\* session or its upload identifier.
C7_AfterPollFail ==
    last.op = "pollFail" =>
        /\ uploads[last.att].interval = "cleared"
        /\ resultsSection = PollFailedMsg
        /\ uploadButton = ButtonReady

\* C7 as a whole: the state after the failure, and every later step
C7_PollFailureIsFatal == []C7_AfterPollFail /\ [][NoRequestAfterCancel]_vars

C7_Witness ==
    /\ last.op = "pollFail"
    /\ uploads[last.att].stop = "fail"
    /\ ticked < MaxTicks

\* C8: after a render the region equals the render of the same record into
\* an empty region (it does not depend on what the region held), and
\* rendering the record once more leaves the region as it is.
C8_RenderIdempotentFullReplace ==
    last.op = "render" =>
        /\ resultsSection = renderResults(<<>>, last.data[1])
        /\ renderResults(resultsSection, last.data[1]) = resultsSection

C8_Witness ==
    /\ last.op = "render"
    /\ Len(last.data[1].photos) >= 2
    /\ last.data[1].status = "done"

\* C9: a render yields the header and then exactly one card per Photo in
\* record order; a Photo without a question gets the text "Extracting
\* text..." and no answer card, a Photo with a question gets one answer card
\* per Answer, in order.
CardMatches(card, photo) ==
    /\ card.cls = <<"result-card">>
    /\ card.kids[1].text = <<"Question from ", photo.filename>>
    /\ card.kids[3].cls = <<"answer-grid">>
    /\ LET grid == card.kids[3].kids
       IN  IF Len(photo.question) = 0
           THEN /\ card.kids[2].text[2] = "Extracting text..."
                /\ Len(grid) = 0
           ELSE LET answers == photo.question[1].answers
                IN  /\ Len(grid) = Len(answers)
                    /\ \A j \in DOMAIN answers :
                          /\ grid[j].cls = <<"answer-card">>
                          /\ grid[j].kids[1].text[1] = answers[j].provider
                          /\ grid[j].kids[1].text[3] = answers[j].model
                          /\ grid[j].kids[3].kids[1].text = <<answers[j].status>>

C9_OneCardPerPhoto ==
    last.op = "render" =>
        LET photos == last.data[1].photos
        IN  /\ Len(resultsSection) = 1 + Len(photos)
            /\ resultsSection[1].tag = "h2"
            /\ \A i \in DOMAIN photos : CardMatches(resultsSection[i + 1], photos[i])

C9_Witness ==
    /\ last.op = "render"
    /\ last.data[1].photos = <<PhotoNoQuestion, PhotoTwoAnswers, PhotoOneAnswer>>

\* C10: an attempt only moves Idle->Uploading, Uploading->Polling,
\* Uploading->Error, Polling->Polling, Polling->Done, Polling->Error; once it
\* is in Done or Error it moves no more and no response of that attempt
\* changes the trigger control or the results region.
Phase(u) ==
    IF u.fetch = "pending" THEN "Uploading"
    ELSE IF u.fetch = "failed" THEN "Error"
    ELSE IF u.interval = "active" THEN "Polling"
    ELSE IF u.stop = "done" THEN "Done"
    ELSE "Error"

Transitions ==
    {<<"Uploading", "Polling">>, <<"Uploading", "Error">>, <<"Polling", "Polling">>,
     <<"Polling", "Done">>, <<"Polling", "Error">>}

C10_AttemptStateMachine ==
    [][\A a \in DOMAIN uploads' :
          IF a \notin Attempts
          THEN Phase(uploads'[a]) = "Uploading"
          ELSE /\ \/ Phase(uploads'[a]) = Phase(uploads[a])
                  \/ <<Phase(uploads[a]), Phase(uploads'[a])>> \in Transitions
               /\ (/\ Phase(uploads[a]) \in {"Done", "Error"}
                   /\ \E q \in polls \ polls' : q.att = a)
                  => (uploadButton' = uploadButton /\ resultsSection' = resultsSection)]_vars

\* C11: an upload response that is 2xx with a body carrying no id aborts the
\* attempt: no poll timer is started, no status request is issued for it and
\* the trigger control is enabled after the response.
C11_NoIdAborts ==
    /\ \A a \in Attempts :
          (uploads[a].fetch = "ok" /\ uploads[a].uploadId = NoId) =>
              uploads[a].interval = "none"
    /\ \A q \in polls : q.id # NoId
    /\ (last.op = "uploadOk" /\ uploads[last.att].uploadId = NoId) =>
          uploadButton = ButtonReady

\* C12: every status request belongs to an attempt whose upload request has
\* returned successfully and carries the identifier that response returned,
\* which is the identifier of no other attempt.
C12_RequestCarriesOwnId ==
    \A q \in polls :
        /\ uploads[q.att].fetch = "ok"
        /\ q.id = uploads[q.att].uploadId
        /\ \A b \in Attempts \ {q.att} :
              (uploads[b].fetch = "ok" /\ uploads[b].uploadId = q.id) => q.id = NoId

C12_Witness ==
    \E q \in polls :
        /\ q.att = 2
        /\ q.id = ServerId(2)
        /\ uploads[1].fetch = "ok" /\ uploads[1].uploadId = ServerId(1)

\* C13: under FairPolling every polling session reaches a state in which its
\* timer is cancelled and the trigger control is enabled; a timer is only
\* cancelled by a step that handles a terminal record or a failure of that
\* session, and until then the callback can always fire again.
Active(a) == a \in Attempts /\ uploads[a].interval = "active"
Stopped(a) == a \in Attempts /\ uploads[a].interval = "cleared"

C13_CancelOnlyOnFinal ==
    \A a \in Attempts :
        (uploads[a].interval = "active" /\ uploads'[a].interval # "active") =>
            /\ last'.att = a
            /\ last'.op = "pollFail" \/ (last'.op = "pollOk" /\ Terminal(last'))

C13_TimerCanFire ==
    \A a \in Attempts :
        (Active(a) /\ Cardinality(polls) < MaxTicks) => ENABLED TickLive(a)

C13_PollingEventuallyStops ==
    /\ \A a \in 1 .. LiveAttempts :
          Active(a) ~> (Stopped(a) /\ ~uploadButton.disabled)
    /\ [][C13_CancelOnlyOnFinal]_vars
    /\ []C13_TimerCanFire

C13_Witness ==
    /\ last.op = "pollOk" /\ Terminal(last)
    /\ Stopped(last.att)
    /\ uploads[last.att].stop = last.data[1].status
    /\ Outstanding(last.att) # {}

\* C14: the interval callback has no in-flight guard: a session whose interval
\* is active can tick while requests of it are outstanding, so two requests of
\* one session are outstanding at once, and every outstanding request can be
\* answered next, whatever was issued before or after it.
C14_NoInFlightGuard ==
    /\ \A a \in Attempts :
          (uploads[a].interval = "active" /\ ticked < MaxTicks) => ENABLED Tick(a)
    /\ \A q \in polls :
          /\ ENABLED PollFail(q)
          /\ q.id # NoId => \A data \in PollRecords : ENABLED PollOk(q, data)

C14_Witness ==
    \E q1, q2 \in polls :
        /\ q1.att = q2.att
        /\ q1.n < q2.n
        /\ q1.id = q2.id /\ q1.id # NoId
        /\ uploads[q1.att].interval = "active"

\* C15: a selection change leaves selectedFiles equal to the new file list,
\* empty or not, and changes neither the button, nor the results region, nor
\* any interval, nor any outstanding upload or status request.
C15_ChangeFrame ==
    last'.op = "change" =>
        UNCHANGED <<uploadButton, resultsSection, uploads, posts, polls>>

C15_SelectionReplaced ==
    /\ [](last.op = "change" => selectedFiles = last.data[1])
    /\ [][C15_ChangeFrame]_vars

C15_Witness ==
    /\ last.op = "change"
    /\ selectedFiles = <<>>
    /\ changes >= 2
    /\ uploadButton.disabled
    /\ \E a \in Attempts : uploads[a].interval = "active" /\ Outstanding(a) # {}

\* C16: at most one interval is active at any time, and an upload request is
\* issued only when no earlier attempt has its upload outstanding or its
\* interval active.
C16_AtMostOneInFlight ==
    /\ Cardinality({a \in Attempts : uploads[a].interval = "active"}) <= 1
    /\ last.op = "click" => \A a \in Attempts \ {last.att} : ~InFlight(a)

\* C17: once the latest polling session has stopped on a terminal status, no
\* step other than the next trigger changes the results region; a late
\* response of the stopped session in particular does not.
C17_StoppedOnTerminal ==
    /\ Len(uploads) > 0
    /\ IsTerminal(uploads[Len(uploads)].stop)

C17_Kept ==
    (C17_StoppedOnTerminal /\ Len(uploads') = Len(uploads)) =>
        resultsSection' = resultsSection

C17_TerminalRecordKept == [][C17_Kept]_vars

\* C18: whenever the button is disabled, an upload request is outstanding or
\* an interval is active, so a response or a tick can still follow.
C18_NeverStuckDisabled ==
    /\ uploadButton.disabled => \E a \in Attempts : InFlight(a)
    /\ \A a \in Attempts : uploads[a].fetch = "pending" <=> \E p \in posts : p.att = a
    /\ \A p \in posts : ENABLED UploadFail(p)

C18_Witness ==
    /\ uploadButton.disabled
    /\ posts = {} /\ polls = {}
    /\ NonTerminal(last)
    /\ uploads[last.att].interval = "active"

\* C19: when no read is pending and every read has completed successfully,
\* the preview holds one thumbnail for each file of selectedFiles and no
\* other thumbnail.
Thumbnails(f) == Cardinality({i \in DOMAIN imagePreview : imagePreview[i] = f})
Selected(f) == Cardinality({i \in DOMAIN selectedFiles : selectedFiles[i] = f})

C19_PreviewMatchesSelection ==
    (\A f \in Files : readers[f] = 0) =>
        \A f \in Files : Thumbnails(f) = Selected(f)

====
